---- MODULE Spec2Model ----
(***************************************************************************)
(* A model of src/app.py: the ArXiv feed reader with AI summaries.         *)
(*                                                                         *)
(* One execution of main() is a run: the sidebar reads the API key, the    *)
(* feed is fetched and normalised, the search box filters the papers and   *)
(* every filtered paper is displayed, each display asking the upstream     *)
(* service for a summary when a key is present.  Streamlit re-executes     *)
(* main() on every interaction; SpecSession models a session of such runs. *)
(*                                                                         *)
(* Python strings are sequences of characters, None is a tagged value, an  *)
(* attribute of a feed entry is present or absent.                         *)
(***************************************************************************)
EXTENDS Integers, Sequences, FiniteSets

VARIABLES
    pc,               \* position of main(): sidebar, fetch, list, render, done, crashed
    run,              \* number of the current execution of main() in the session
    api_key,          \* main: api_key (st.text_input always yields a str)
    feed,             \* what feedparser.parse produced for this run
    papers,           \* main: papers
    fetch_error,      \* the st.error of fetch_arxiv_papers ("" when none)
    search_term,      \* main: search_term
    filtered_papers,  \* main: filtered_papers
    idx,              \* position of the for loop over filtered_papers
    shown,            \* what display_paper rendered, one item per call
    no_data,          \* the st.warning of main's else branch was shown
    upstream_calls,   \* requests the summarization service received in this run
    link_calls,       \* per link: requests the service received in the session
    link_reqs         \* per link: the summaries asked for with a key in the
                      \* session, in order: the key, and whether one was shown

vars == <<pc, run, api_key, feed, papers, fetch_error, search_term,
          filtered_papers, idx, shown, no_data, upstream_calls,
          link_calls, link_reqs>>

(***************************************************************************)
(* Bounds of the model.                                                    *)
(***************************************************************************)
MaxEntries == 2
MaxRuns == 2

(***************************************************************************)
(* Python values.                                                          *)
(***************************************************************************)
None == [none |-> TRUE, s |-> <<>>]
Str(s) == [none |-> FALSE, s |-> s]

\* bool(v) of an Optional[str]: None and "" are falsy.
Truthy(v) == ~v.none /\ Len(v.s) > 0

LowerChar(c) ==
    CASE c = "A" -> "a"
      [] c = "I" -> "i"
      [] c = "B" -> "b"
      [] c = "Z" -> "z"
      [] OTHER -> c

\* str.lower()
Lower(s) == [k \in 1..Len(s) |-> LowerChar(s[k])]

\* q in s, for strings
Contains(s, q) ==
    \E off \in 0..(Len(s) - Len(q)) :
        \A k \in 1..Len(q) : s[off + k] = q[k]

\* an attribute of a feedparser entry: present with a value, or absent
Has(v) == [has |-> TRUE, v |-> v]
Absent == [has |-> FALSE, v |-> <<>>]

(***************************************************************************)
(* The inputs the model draws from.                                        *)
(***************************************************************************)
SeqsUpTo(S, n) == UNION {[1..k -> S] : k \in 0..n}

Alice == [name |-> Has(<<"Alice">>)]
Bob == [name |-> Has(<<"Bob">>)]
\* feedparser also yields author details that carry no name (an email only)
Nameless == [name |-> Absent]

E1 == [title     |-> Has(<<"A", "i">>),
       authors   |-> Has(<<Alice, Bob>>),
       summary   |-> Has(<<"b">>),
       published |-> Has(<<"Mon, 01 Jan 2024 00:00:00 GMT">>),
       link      |-> Has(<<"l1">>),
       tags      |-> Has(<<"cs.AI">>)]

E2 == [title     |-> Has(<<"z", "Z">>),
       authors   |-> Has(<<Alice>>),
       summary   |-> Has(<<"a", "I">>),
       published |-> Has(<<"2024-01-02">>),
       link      |-> Has(<<"l2">>),
       tags      |-> Has(<<>>)]

Links == {<<"l1">>, <<"l2">>}

OptionalFields == {"authors", "tags", "published"}
RequiredFields == {"title", "summary", "link"}

\* the entry e as a feed that omits the fields F would supply it
Without(e, F) == [f \in DOMAIN e |-> IF f \in F THEN Absent ELSE e[f]]

RawEntries ==
    {E1, E2}
    \cup {Without(E1, F) : F \in (SUBSET OptionalFields) \ {{}}}
    \cup {Without(E2, {f}) : f \in RequiredFields}
    \cup {[E2 EXCEPT !.authors = Has(<<Nameless>>)]}

\* feedparser.parse(ARXIV_RSS_URL): it raises, or it returns a feed whose
\* entries may be none at all (an empty feed, or a document or a connection
\* the parser gave up on: it then sets bozo, which app.py never reads).
ParseRaises == [raises |-> TRUE, entries |-> <<>>]
Parsed(es) == [raises |-> FALSE, entries |-> es]

Feeds == {ParseRaises} \cup {Parsed(es) : es \in SeqsUpTo(RawEntries, MaxEntries)}

\* the feeds of a session: the two well-formed entries, each at most once
SessionFeeds ==
    {ParseRaises}
    \cup {Parsed(es) : es \in {s \in SeqsUpTo({E1, E2}, MaxEntries) :
                                 \A j, k \in 1..Len(s) : s[j] = s[k] => j = k}}

\* st.text_input of the sidebar
Keys == {<<>>, <<"k1">>, <<"k2">>}

\* st.text_input of the search box
Queries == {<<>>, <<"a", "i">>, <<"A", "I">>, <<"B">>, <<"I">>, <<"Z", "z">>, <<"x">>}

\* client.chat.completions.create(...): it raises, or it returns a completion
NoUp == [kind |-> "none", content |-> None, detail |-> <<>>]
UpRaise == [kind |-> "raise", content |-> None, detail |-> <<"timeout">>]
UpOk(s) == [kind |-> "ok", content |-> Str(s), detail |-> <<>>]

UpstreamOutcomes == {UpRaise, UpOk(<<>>), UpOk(<<" ">>), UpOk(<<"S", "1">>)}

(***************************************************************************)
(* summarize_text                                                          *)
(***************************************************************************)
\* the fixed text that starts the message of the Exception raised at line 66
\* (in the source a Chinese sentence, here in ASCII)
ApiErrorPrefix == <<"API call failed: ">>

\* the mark that starts the st.error of display_paper
ErrorMark == <<"[x] ">>

\* summarize_text without the check of the key
summarize_text_ungated(text, key, up) ==
    IF up.kind = "raise"
    THEN [raised |-> TRUE, value |-> None,
          detail |-> ApiErrorPrefix \o up.detail, calls |-> 1]
    ELSE [raised |-> FALSE, value |-> up.content, detail |-> <<>>, calls |-> 1]

\* What a call does: it returns value, or raises an Exception carrying
\* detail; calls is the number of requests it sent to the service.
summarize_text(text, key, up) ==
    IF ~Truthy(key)
    THEN [raised |-> FALSE, value |-> None, detail |-> <<>>, calls |-> 0]
    ELSE IF up.kind = "raise"
         THEN [raised |-> TRUE, value |-> None,
               detail |-> ApiErrorPrefix \o up.detail, calls |-> 1]
         ELSE [raised |-> FALSE, value |-> up.content, detail |-> <<>>, calls |-> 1]

NotCalled == [raised |-> FALSE, value |-> None, detail |-> <<>>, calls |-> 0]

(***************************************************************************)
(* fetch_arxiv_papers                                                      *)
(***************************************************************************)
\* The first attribute whose access raises AttributeError while the dict
\* literal of one entry is evaluated, in evaluation order; "" when none does.
MissingAttr(e) ==
    IF ~e.title.has THEN "title"
    ELSE IF e.authors.has /\ \E k \in 1..Len(e.authors.v) : ~e.authors.v[k].name.has
         THEN "name"
    ELSE IF ~e.summary.has THEN "summary"
    ELSE IF ~e.published.has THEN "published"
    ELSE IF ~e.link.has THEN "link"
    ELSE ""

\* the dict built for one entry
MakePaper(e) ==
    [title          |-> e.title.v,
     authors        |-> IF e.authors.has
                        THEN [k \in 1..Len(e.authors.v) |-> e.authors.v[k].name.v]
                        ELSE <<>>,
     summary        |-> e.summary.v,
     published_date |-> e.published.v,
     link           |-> e.link.v,
     categories     |-> IF e.tags.has THEN e.tags.v ELSE <<>>]

\* the loop, were it to drop an entry whose link it has already seen
RECURSIVE FetchLoopDedup(_, _, _)
FetchLoopDedup(entries, i, acc) ==
    IF i > Len(entries)
    THEN [papers |-> acc, error |-> ""]
    ELSE IF MissingAttr(entries[i]) # ""
         THEN [papers |-> <<>>, error |-> MissingAttr(entries[i])]
         ELSE IF \E k \in 1..Len(acc) : acc[k].link = entries[i].link.v
              THEN FetchLoopDedup(entries, i + 1, acc)
              ELSE FetchLoopDedup(entries, i + 1, Append(acc, MakePaper(entries[i])))

\* the for loop over feed.entries, from entry i on, inside the try block
RECURSIVE FetchLoop(_, _, _)
FetchLoop(entries, i, acc) ==
    IF i > Len(entries)
    THEN [papers |-> acc, error |-> ""]
    ELSE IF MissingAttr(entries[i]) # ""
         THEN [papers |-> <<>>, error |-> MissingAttr(entries[i])]
         ELSE FetchLoop(entries, i + 1, Append(acc, MakePaper(entries[i])))

\* fetch_arxiv_papers without its try/except
fetch_arxiv_papers_unguarded(parse) ==
    IF parse.raises
    THEN [papers |-> <<>>, error |-> "", escaped |-> TRUE]
    ELSE LET r == FetchLoop(parse.entries, 1, <<>>)
         IN  [papers |-> r.papers, error |-> "", escaped |-> r.error # ""]

\* papers is what the caller receives, error the text given to st.error
\* ("" when st.error is not called), escaped whether an exception leaves
fetch_arxiv_papers(parse) ==
    IF parse.raises
    THEN [papers |-> <<>>, error |-> "parse", escaped |-> FALSE]
    ELSE LET r == FetchLoop(parse.entries, 1, <<>>)
         IN  [papers |-> r.papers, error |-> r.error, escaped |-> FALSE]

(***************************************************************************)
(* display_paper: the AI summary section                                   *)
(***************************************************************************)
AiItem(kind, text) == [kind |-> kind, text |-> text]

\* display_paper without the try/except around summarize_text
display_paper_unguarded(paper, key, up) ==
    IF ~Truthy(Str(key))
    THEN [item |-> [paper |-> paper, ai |-> AiItem("warn_nokey", <<>>),
                    up |-> NoUp, sum |-> NotCalled],
          calls |-> 0, escaped |-> FALSE]
    ELSE LET r == summarize_text(paper.summary, Str(key), up)
             ai == IF r.raised THEN AiItem("none", <<>>)
                   ELSE IF Truthy(r.value) THEN AiItem("write", r.value.s)
                   ELSE AiItem("warn_failed", <<>>)
         IN  [item |-> [paper |-> paper, ai |-> ai, up |-> up, sum |-> r],
              calls |-> r.calls, escaped |-> r.raised]

\* display_paper with summaries cached by link: a link whose latest summary
\* was shown under this key is served without a call
display_paper_cached(paper, key, up) ==
    IF ~Truthy(Str(key))
    THEN [item |-> [paper |-> paper, ai |-> AiItem("warn_nokey", <<>>),
                    up |-> NoUp, sum |-> NotCalled],
          calls |-> 0, escaped |-> FALSE]
    ELSE IF Len(link_reqs[paper.link]) > 0
            /\ link_reqs[paper.link][Len(link_reqs[paper.link])] = [key |-> key, ok |-> TRUE]
    THEN [item |-> [paper |-> paper, ai |-> AiItem("cached", <<>>),
                    up |-> NoUp, sum |-> NotCalled],
          calls |-> 0, escaped |-> FALSE]
    ELSE LET r == summarize_text(paper.summary, Str(key), up)
             ai == IF r.raised THEN AiItem("error", ErrorMark \o r.detail)
                   ELSE IF Truthy(r.value) THEN AiItem("write", r.value.s)
                   ELSE AiItem("warn_failed", <<>>)
         IN  [item |-> [paper |-> paper, ai |-> ai, up |-> up, sum |-> r],
              calls |-> r.calls, escaped |-> FALSE]

display_paper(paper, key, up) ==
    IF ~Truthy(Str(key))
    THEN [item |-> [paper |-> paper, ai |-> AiItem("warn_nokey", <<>>),
                    up |-> NoUp, sum |-> NotCalled],
          calls |-> 0, escaped |-> FALSE]
    ELSE LET r == summarize_text(paper.summary, Str(key), up)
             ai == IF r.raised THEN AiItem("error", ErrorMark \o r.detail)
                   ELSE IF Truthy(r.value) THEN AiItem("write", r.value.s)
                   ELSE AiItem("warn_failed", <<>>)
         IN  [item |-> [paper |-> paper, ai |-> ai, up |-> up, sum |-> r],
              calls |-> r.calls, escaped |-> FALSE]

(***************************************************************************)
(* main                                                                    *)
(***************************************************************************)
\* the match, were the query compared as typed
MatchesAsTyped(paper, q) ==
    \/ Contains(Lower(paper.title), q)
    \/ Contains(Lower(paper.summary), q)

Matches(paper, q) ==
    \/ Contains(Lower(paper.title), Lower(q))
    \/ Contains(Lower(paper.summary), Lower(q))

\* the list comprehension over papers, from position i on
RECURSIVE Comprehension(_, _, _)
Comprehension(ps, q, i) ==
    IF i > Len(ps) THEN <<>>
    ELSE IF Matches(ps[i], q)
         THEN <<ps[i]>> \o Comprehension(ps, q, i + 1)
         ELSE Comprehension(ps, q, i + 1)

FilterPapers(ps, q) == IF Len(q) > 0 THEN Comprehension(ps, q, 1) ELSE ps

NoFeed == Parsed(<<>>)

Init ==
    /\ pc = "sidebar"
    /\ run = 1
    /\ api_key = <<>>
    /\ feed = NoFeed
    /\ papers = <<>>
    /\ fetch_error = ""
    /\ search_term = <<>>
    /\ filtered_papers = <<>>
    /\ idx = 1
    /\ shown = <<>>
    /\ no_data = FALSE
    /\ upstream_calls = 0
    /\ link_calls = [l \in Links |-> 0]
    /\ link_reqs = [l \in Links |-> <<>>]

\* with st.sidebar: the key is read
Sidebar ==
    /\ pc = "sidebar"
    /\ \E k \in Keys : api_key' = k
    /\ pc' = "fetch"
    /\ UNCHANGED <<run, feed, papers, fetch_error, search_term, filtered_papers,
                   idx, shown, no_data, upstream_calls, link_calls,
                   link_reqs>>

\* papers = fetch_arxiv_papers(), the source answering with one of fs
FetchFrom(fs) ==
    /\ pc = "fetch"
    /\ \E f \in fs :
         LET r == fetch_arxiv_papers(f)
         IN  /\ feed' = f
             /\ papers' = r.papers
             /\ fetch_error' = r.error
             /\ pc' = IF r.escaped THEN "crashed" ELSE "list"
    /\ UNCHANGED <<run, api_key, search_term, filtered_papers, idx, shown,
                   no_data, upstream_calls, link_calls, link_reqs>>

Fetch == FetchFrom(Feeds)

FetchSession == FetchFrom(SessionFeeds)

\* if papers: the search box is read and the papers are filtered
Search ==
    /\ pc = "list"
    /\ Len(papers) > 0
    /\ \E q \in Queries :
         /\ search_term' = q
         /\ filtered_papers' = FilterPapers(papers, q)
         /\ pc' = IF Len(FilterPapers(papers, q)) = 0 THEN "done" ELSE "render"
    /\ idx' = 1
    /\ UNCHANGED <<run, api_key, feed, papers, fetch_error, shown, no_data,
                   upstream_calls, link_calls, link_reqs>>

\* else: st.warning, no data
NoData ==
    /\ pc = "list"
    /\ Len(papers) = 0
    /\ no_data' = TRUE
    /\ pc' = "done"
    /\ UNCHANGED <<run, api_key, feed, papers, fetch_error, search_term,
                   filtered_papers, idx, shown, upstream_calls, link_calls,
                   link_reqs>>

\* one iteration of: for paper in filtered_papers: display_paper(paper, api_key)
Display ==
    /\ pc = "render"
    /\ idx <= Len(filtered_papers)
    /\ \E up \in (IF Truthy(Str(api_key)) THEN UpstreamOutcomes ELSE {NoUp}) :
         LET paper == filtered_papers[idx]
             d == display_paper(paper, api_key, up)
             asked == Truthy(Str(api_key))
         IN  /\ shown' = Append(shown, d.item)
             /\ upstream_calls' = upstream_calls + d.calls
             /\ link_calls' = [link_calls EXCEPT ![paper.link] = @ + d.calls]
             /\ link_reqs' = IF asked
                             THEN [link_reqs EXCEPT ![paper.link] =
                                     Append(@, [key |-> api_key,
                                                ok |-> d.item.ai.kind = "write"])]
                             ELSE link_reqs
             /\ pc' = IF d.escaped THEN "crashed"
                      ELSE IF idx = Len(filtered_papers) THEN "done"
                      ELSE "render"
    /\ idx' = idx + 1
    /\ UNCHANGED <<run, api_key, feed, papers, fetch_error, search_term,
                   filtered_papers, no_data>>

\* Streamlit executes main() again: a widget changed, or the refresh button
Rerun ==
    /\ pc = "done"
    /\ run < MaxRuns
    /\ run' = run + 1
    /\ pc' = "sidebar"
    /\ api_key' = <<>>
    /\ feed' = NoFeed
    /\ papers' = <<>>
    /\ fetch_error' = ""
    /\ search_term' = <<>>
    /\ filtered_papers' = <<>>
    /\ idx' = 1
    /\ shown' = <<>>
    /\ no_data' = FALSE
    /\ upstream_calls' = 0
    /\ UNCHANGED <<link_calls, link_reqs>>

\* one execution of main()
Next == Sidebar \/ Fetch \/ Search \/ NoData \/ Display

Spec == Init /\ [][Next]_vars

\* a session: main() executed up to MaxRuns times
NextSession == Sidebar \/ FetchSession \/ Search \/ NoData \/ Display \/ Rerun

SpecSession == Init /\ [][NextSession]_vars

(***************************************************************************)
(* Properties.                                                             *)
(***************************************************************************)
Fetched == pc \in {"list", "render", "done"}
Rendering == pc \in {"render", "done"}

\* C1: summarize_text called with None or "" returns None and sends no
\* request, whatever the text and whatever the service would answer; and in a
\* run the number of requests the service received grows only on a step whose
\* key is non-empty.
CredentialGate ==
    [][ /\ \A p \in {MakePaper(E1), MakePaper(E2)} :
           \A k \in {None, Str(<<>>)} :
             \A up \in UpstreamOutcomes \cup {NoUp} :
               LET r == summarize_text(p.summary, k, up)
               IN  ~r.raised /\ r.value = None /\ r.calls = 0
        /\ (upstream_calls' > upstream_calls => Truthy(Str(api_key)))
        /\ (pc = "render" /\ ~Truthy(Str(api_key)) =>
              /\ upstream_calls' = upstream_calls
              /\ shown'[Len(shown')].ai.kind = "warn_nokey")
      ]_vars

\* C1 witness: a paper was displayed with an empty key and no request sent
CredentialGateWitness ==
    /\ pc = "done"
    /\ api_key = <<>>
    /\ Len(shown) = 2
    /\ shown[2].ai.kind = "warn_nokey"
    /\ upstream_calls = 0

\* C2: when the upstream call fails, summarize_text returns a value: no
\* exception leaves it.
SummarizeAlwaysReturns ==
    \A i \in 1..Len(shown) :
        shown[i].up.kind = "raise" => ~shown[i].sum.raised

\* C3: a completion is shown as a summary only if it has a character that is
\* not whitespace; an empty or blank completion is classified as a failure.
BlankCompletionIsEmpty ==
    \A i \in 1..Len(shown) :
        LET blank(s) == \A k \in 1..Len(s) : s[k] \in {" ", "\t", "\n"}
        IN  /\ shown[i].ai.kind = "write" => ~blank(shown[i].ai.text)
            /\ (shown[i].up.kind = "ok" /\ blank(shown[i].up.content.s))
                  => shown[i].ai.kind = "warn_failed"

\* C4 as stated: for a link, a request made with the key under which the
\* previous request for that link got its summary is served from a cache and
\* reaches the service no second time; any other request reaches it once.
SummaryCachedByLink ==
    [][ \A l \in Links :
          Len(link_reqs'[l]) = Len(link_reqs[l]) + 1 =>
            LET n == Len(link_reqs[l])
            IN  IF n > 0 /\ link_reqs[l][n] = [key |-> api_key, ok |-> TRUE]
                THEN link_calls'[l] = link_calls[l]
                ELSE link_calls'[l] = link_calls[l] + 1
      ]_vars

\* C4 as amended: there is no cache; every request for a summary made with a
\* key reaches the service once, under the key of the previous request or
\* under another, and what is displayed is the outcome of that very call.
EveryRequestReachesUpstream ==
    /\ \A l \in Links : link_calls[l] = Len(link_reqs[l])
    /\ \A i \in 1..Len(shown) :
         Truthy(Str(api_key)) =>
           /\ shown[i].sum.calls = 1
           /\ shown[i].up \in UpstreamOutcomes

\* C4 witness: the second run asked again for a link under the key that got
\* the first run its summary, and the service was called both times
EveryRequestReachesUpstreamWitness ==
    /\ run = 2
    /\ pc = "done"
    /\ \E l \in Links :
         /\ Len(link_reqs[l]) = 2
         /\ link_reqs[l][1] = [key |-> api_key, ok |-> TRUE]
         /\ link_reqs[l][2].key = api_key
         /\ link_calls[l] = 2

\* C5: the filtered papers are, in order, exactly the papers whose lowercased
\* title or lowercased abstract contains the lowercased query; the empty
\* query gives the papers themselves; queries that differ only in letter
\* case give the same result.
FilterIsCaseInsensitiveSubsequence ==
    (Rendering /\ Len(papers) > 0) =>
      LET q == search_term
          within(s) == \E off \in 0..(Len(s) - Len(q)) :
                         \A k \in 1..Len(q) : LowerChar(s[off + k]) = LowerChar(q[k])
          H == {i \in 1..Len(papers) :
                  within(papers[i].title) \/ within(papers[i].summary)}
      IN  /\ Len(filtered_papers) = Cardinality(H)
          /\ \E g \in [1..Len(filtered_papers) -> H] :
               /\ \A j \in 1..Len(filtered_papers) : filtered_papers[j] = papers[g[j]]
               /\ \A j, k \in 1..Len(filtered_papers) : j < k => g[j] < g[k]
          /\ (q = <<>> => filtered_papers = papers)
          /\ \A q2 \in Queries :
               Lower(q2) = Lower(q) => FilterPapers(papers, q2) = filtered_papers

\* C5 witness: an upper-case query matched the second of two papers, by its
\* lower-case abstract
FilterWitness ==
    /\ pc = "done"
    /\ search_term = <<"B">>
    /\ Len(papers) = 2
    /\ Len(filtered_papers) = 1
    /\ filtered_papers[1] = papers[2]
    /\ filtered_papers[1] # papers[1]
    /\ filtered_papers[1].summary = <<"b">>

\* C6: an entry with title, abstract and link normalizes whichever optional
\* fields it lacks, each absent optional field getting its default.
OptionalFieldsDefault ==
    (Fetched /\ ~feed.raises /\ Len(feed.entries) = 1) =>
      LET e == feed.entries[1]
      IN  (/\ e.title.has /\ e.summary.has /\ e.link.has
           /\ e.authors.has => \A k \in 1..Len(e.authors.v) : e.authors.v[k].name.has)
          => /\ Len(papers) = 1
             /\ fetch_error = ""
             /\ ~e.authors.has => papers[1].authors = <<>>
             /\ ~e.tags.has => papers[1].categories = <<>>
             /\ ~e.published.has => papers[1].published_date = <<>>

FetchFailed == feed.raises \/ Len(feed.entries) = 0

NoDataRun ==
    /\ no_data
    /\ shown = <<>>
    /\ search_term = <<>>
    /\ filtered_papers = <<>>
    /\ upstream_calls = 0

\* C7 as stated: every fetch-level failure (the parse raising, an empty or
\* absent feed) ends without an exception, with no papers and with an error
\* reported; the run then shows the no-data state, filters nothing and asks
\* for no summary.
FetchFailureReported ==
    /\ pc # "crashed"
    /\ (Fetched /\ FetchFailed) => (papers = <<>> /\ fetch_error # "")
    /\ (pc = "done" /\ papers = <<>>) => NoDataRun

\* C7 as amended: every fetch-level failure ends without an exception and
\* with no papers; fetch reports an error exactly when an exception was
\* caught (the parse raised, or an attribute of an entry was missing), and
\* not for a feed that parsed to no entries, which only the no-data warning
\* reports; the run with no papers shows the no-data state, filters nothing
\* and asks for no summary.
FetchFailureIsNonFatal ==
    /\ pc # "crashed"
    /\ (Fetched /\ FetchFailed) => papers = <<>>
    /\ Fetched =>
         /\ fetch_error # "" <=>
              (feed.raises \/ \E i \in 1..Len(feed.entries) :
                                MissingAttr(feed.entries[i]) # "")
         /\ fetch_error # "" => papers = <<>>
         /\ (~feed.raises /\ Len(feed.entries) = 0) => fetch_error = ""
    /\ (pc = "done" /\ papers = <<>>) => NoDataRun
    /\ (pc = "list" /\ papers = <<>>) => ~ENABLED Search

\* C7 witness: an empty feed ended in the no-data state with no error reported
EmptyFeedWitness ==
    /\ pc = "done"
    /\ ~feed.raises
    /\ Len(feed.entries) = 0
    /\ fetch_error = ""
    /\ no_data

\* C8: a summarization that fails neither stops the loop nor changes what
\* another paper gets: every filtered paper is displayed, in order, each with
\* its own attempt and the outcome of that attempt alone.
SummarizationFailureIsolated ==
    /\ pc # "crashed"
    /\ Len(shown) <= Len(filtered_papers)
    /\ pc = "render" => (idx = Len(shown) + 1 /\ idx <= Len(filtered_papers))
    /\ (pc = "done" /\ Len(papers) > 0) => Len(shown) = Len(filtered_papers)
    /\ \A i \in 1..Len(shown) :
         /\ shown[i].paper = filtered_papers[i]
         /\ Truthy(Str(api_key)) =>
              /\ shown[i].sum.calls = 1
              /\ shown[i].ai.kind =
                   (IF shown[i].up.kind = "raise" THEN "error"
                    ELSE IF shown[i].up.content.s = <<>> THEN "warn_failed"
                    ELSE "write")
              /\ shown[i].ai.kind = "write" => shown[i].ai.text = shown[i].up.content.s

\* C8 witness: the first summary failed upstream, the second was shown
FailureIsolatedWitness ==
    /\ pc = "done"
    /\ Len(shown) = 2
    /\ shown[1].ai.kind = "error"
    /\ shown[2].ai.kind = "write"

\* C9: when every entry normalizes there is one paper per entry, in feed
\* order, repeated entries included, and the filtered papers keep that order.
FeedOrderPreserved ==
    (Fetched /\ ~feed.raises
       /\ \A i \in 1..Len(feed.entries) : MissingAttr(feed.entries[i]) = "") =>
      /\ Len(papers) = Len(feed.entries)
      /\ \A i \in 1..Len(papers) :
           /\ papers[i].title = feed.entries[i].title.v
           /\ papers[i].summary = feed.entries[i].summary.v
           /\ papers[i].link = feed.entries[i].link.v
           /\ papers[i].published_date = feed.entries[i].published.v
      /\ Rendering =>
           \E g \in [1..Len(filtered_papers) -> 1..Len(papers)] :
             /\ \A j \in 1..Len(filtered_papers) : filtered_papers[j] = papers[g[j]]
             /\ \A j, k \in 1..Len(filtered_papers) : j < k => g[j] < g[k]
      /\ \A i \in 1..Len(shown) : shown[i].paper = filtered_papers[i]

\* C9 witness: a feed repeating one entry gave two equal papers, both shown
RepeatedEntryWitness ==
    /\ pc = "done"
    /\ Len(feed.entries) = 2
    /\ feed.entries[1] = feed.entries[2]
    /\ Len(papers) = 2
    /\ papers[1] = papers[2]
    /\ Len(shown) = 2

\* C10: an entry that cannot be normalized is skipped alone; the papers of
\* the other entries of the feed are still produced, so one bad entry never
\* empties the batch.
PerEntryIsolation ==
    (Fetched /\ ~feed.raises) =>
      LET good == {i \in 1..Len(feed.entries) : MissingAttr(feed.entries[i]) = ""}
      IN  /\ Len(papers) = Cardinality(good)
          /\ good # {} => papers # <<>>

====
